---- MODULE Spec2Model ----
(***************************************************************************)
(* A model of python-garmin-connect: the file-backed OAuth repository      *)
(* (garmin_connect/repository.py), the HTTP client that loads and dumps    *)
(* tokens through it (garmin_connect/http_client.py), Garmin.login and     *)
(* the paginated accessors (garmin_connect/service.py), init_api           *)
(* (garmin_connect/app.py), the endpoint registry (src/constants.py) with  *)
(* Garmin.get_url and the accessors that resolve through it, the bulk      *)
(* delete of weigh-ins, and init_api run by several callers at once.       *)
(***************************************************************************)
EXTENDS Integers, Sequences, FiniteSets, TLC

VARIABLES
    files,      \* the token directory: file name -> content
    stPc,       \* position inside FileOAuthRepository.set_oauth
    stArgs,     \* the (oauth1_token, oauth2_token) arguments of the running set_oauth
    stOld,      \* the directory as it was when set_oauth was entered
    stErr,      \* exception that ended set_oauth, or "none"
    ldResult,   \* what the last get_oauth returned or raised
    pgOp,       \* the paginated accessor that is running, or "none"
    pgPc,       \* "idle", "loop" (inside while True), "done" (returned) or "raised"
    pgStart,    \* the local variable start
    pgStart0,   \* the value start had when the loop was entered
    pgLimit,    \* the local variable limit
    pgAcc,      \* the list being built (activities / goals)
    pgSent,     \* the start value of every request sent, in order
    pgPages,    \* the pages the server answered with, in order
    pgResult,   \* the list the accessor returned
    iaPc,       \* position inside init_api and the Garmin.login it is running
    iaTry,      \* which try block of init_api is running: "restore" or "creds"
    garmin,     \* the Garmin instance init_api is working on, with its garth tokens
    iaLog,      \* what this init_api run has done so far (calls made, answers received)
    iaResult,   \* "none" while running, then "garmin", "None" or "raised"
    iaErr,      \* the exception init_api logged or let through, or "none"
    iaFiles0,   \* the token directory as it was when init_api was entered
    scPc,       \* position inside the accessor that is running
    scCaller,   \* the accessor that is running, or "none"
    scKwargs,   \* the keyword arguments the accessor hands to get_url
    scUrl,      \* the path get_url returned, as the pieces of the formatted template
    scCalls,    \* every call the accessor made on the garth client, in order
    scResp,     \* the HTTP status and the decoded body the service answered with
    scResult,   \* what the accessor returned
    scErr,      \* the exception that left the accessor, or "none"
    wiPc,       \* position inside Garmin.delete_weigh_ins
    wiCdate,    \* its argument cdate
    wiDeleteAll,\* its argument delete_all
    wiList,     \* the local variable weigh_ins
    wiIdx,      \* how many weigh_ins the for loop has been through
    wiSent,     \* the DELETE requests sent, in order
    wiResult,   \* what delete_weigh_ins returned
    wiErr,      \* the exception that left delete_weigh_ins, or "none"
    ccPc,       \* per caller: position inside its own init_api
    ccTok,      \* per caller: the tokens its garth client holds
    ccOpen,     \* per token file: the caller whose open() made the current file
    ccOut       \* per caller: what its init_api returned

storeVars == <<files, stPc, stArgs, stOld, stErr, ldResult>>

pgVars == <<pgOp, pgPc, pgStart, pgStart0, pgLimit, pgAcc, pgSent, pgPages, pgResult>>

iaVars == <<iaPc, iaTry, garmin, iaLog, iaResult, iaErr, iaFiles0>>

\* the repository's own bookkeeping, which init_api never touches
stCallVars == <<stPc, stArgs, stOld, stErr, ldResult>>

scVars == <<scPc, scCaller, scKwargs, scUrl, scCalls, scResp, scResult, scErr>>

wiVars == <<wiPc, wiCdate, wiDeleteAll, wiList, wiIdx, wiSent, wiResult, wiErr>>

ccVars == <<ccPc, ccTok, ccOpen, ccOut>>

\* the accessors, the bulk delete and the concurrent callers
apiVars == <<scVars, wiVars, ccVars>>

vars == <<storeVars, pgVars, iaVars, apiVars>>

-----------------------------------------------------------------------------
(* Values *)

None == [cls |-> "NoneType"]

OAuth1Fields == {"oauth_token", "oauth_token_secret", "domain"}

OAuth2Fields == {"access_token", "refresh_token", "expires_at"}

OAuth1Tokens ==
    [cls : {"OAuth1Token"}, oauth_token : {"t1", "t2"},
     oauth_token_secret : {"s1"}, domain : {"garmin.com"}]

OAuth2Tokens ==
    [cls : {"OAuth2Token"}, access_token : {"a1", "a2"},
     refresh_token : {"r1"}, expires_at : {"e1"}]

\* garth.utils.asdict: the dataclass as a plain dict of its fields
asdict(tok) ==
    [k \in (DOMAIN tok) \ {"cls"} |-> tok[k]]

\* Python truthiness of a token argument: None is falsy, a token object is truthy
Truthy(x) ==
    x # None

OAUTH1_FILE == "oauth1_token.json"

OAUTH2_FILE == "oauth2_token.json"

FileNames == {OAUTH1_FILE, OAUTH2_FILE}

Absent == [kind |-> "absent"]

\* a file that exists but holds no complete JSON document (just opened "w", or cut short)
Truncated == [kind |-> "truncated"]

\* json.dump(obj, f) followed by the close of the with-block
JsonFile(obj) ==
    [kind |-> "json", obj |-> obj]

JsonObjects ==
    {asdict(t) : t \in OAuth1Tokens \cup OAuth2Tokens}

FileContents ==
    {Absent, Truncated} \cup {JsonFile(o) : o \in JsonObjects}

-----------------------------------------------------------------------------
(* FileOAuthRepository.get_oauth *)

\* OAuth1Token(**d) / OAuth2Token(**d): keyword construction needs exactly the fields
MakeToken(cls, fields, d) ==
    IF DOMAIN d = fields
    THEN [status |-> "ok",
          value |-> [k \in fields \cup {"cls"} |-> IF k = "cls" THEN cls ELSE d[k]]]
    ELSE [status |-> "TypeError", value |-> None]

\* with open(path) as f: Token(**json.load(f))
ReadToken(fs, name, cls, fields) ==
    CASE fs[name].kind = "absent" -> [status |-> "FileNotFoundError", value |-> None]
      [] fs[name].kind = "truncated" -> [status |-> "JSONDecodeError", value |-> None]
      [] OTHER -> MakeToken(cls, fields, fs[name].obj)

\* a failed second file still hands back the first credential
get_oauth_Partial(fs) ==
    LET r1 == ReadToken(fs, OAUTH1_FILE, "OAuth1Token", OAuth1Fields)
        r2 == ReadToken(fs, OAUTH2_FILE, "OAuth2Token", OAuth2Fields)
    IN  IF r1.status # "ok"
        THEN [status |-> r1.status, oauth1 |-> None, oauth2 |-> None]
        ELSE [status |-> "ok", oauth1 |-> r1.value, oauth2 |-> r2.value]

get_oauth(fs) ==
    LET r1 == ReadToken(fs, OAUTH1_FILE, "OAuth1Token", OAuth1Fields)
        r2 == ReadToken(fs, OAUTH2_FILE, "OAuth2Token", OAuth2Fields)
    IN  IF r1.status # "ok"
        THEN [status |-> r1.status, oauth1 |-> None, oauth2 |-> None]
        ELSE IF r2.status # "ok"
        THEN [status |-> r2.status, oauth1 |-> None, oauth2 |-> None]
        ELSE [status |-> "ok", oauth1 |-> r1.value, oauth2 |-> r2.value]

NoResult == [status |-> "none", oauth1 |-> None, oauth2 |-> None]

-----------------------------------------------------------------------------
(* FileOAuthRepository.set_oauth, one step per statement *)

\* os.remove(path): raises FileNotFoundError when the file does not exist
RemoveRaises(fs, name) ==
    fs[name].kind = "absent"

Remove(fs, name) ==
    [fs EXCEPT ![name] = Absent]

\* open(path, "w"): creates the file, or truncates it
OpenW(fs, name) ==
    [fs EXCEPT ![name] = Truncated]

\* json.dump(asdict(token), f, ...) and the close at the end of the with-block
Dump(fs, name, tok) ==
    [fs EXCEPT ![name] = JsonFile(asdict(tok))]

StoreRunning == {"if1", "rm1", "open1", "dump1", "if2", "rm2", "open2", "dump2"}

SetOauthCall(o1, o2) ==
    /\ stPc = "idle"
    /\ stPc' = "if1"
    /\ stArgs' = [oauth1 |-> o1, oauth2 |-> o2]
    /\ stOld' = files
    /\ stErr' = "none"
    /\ ldResult' = NoResult
    /\ UNCHANGED files
    /\ UNCHANGED <<pgVars, iaVars, apiVars>>

\* if oauth1_token:
SetIf1 ==
    /\ stPc = "if1"
    /\ stPc' = IF Truthy(stArgs.oauth1) THEN "rm1" ELSE "if2"
    /\ UNCHANGED <<files, stArgs, stOld, stErr, ldResult>>
    /\ UNCHANGED <<pgVars, iaVars, apiVars>>

SetRemove1 ==
    /\ stPc = "rm1"
    /\ IF RemoveRaises(files, OAUTH1_FILE)
       THEN /\ stPc' = "raised"
            /\ stErr' = "FileNotFoundError"
            /\ UNCHANGED files
       ELSE /\ stPc' = "open1"
            /\ files' = Remove(files, OAUTH1_FILE)
            /\ UNCHANGED stErr
    /\ UNCHANGED <<stArgs, stOld, ldResult>>
    /\ UNCHANGED <<pgVars, iaVars, apiVars>>

SetOpen1 ==
    /\ stPc = "open1"
    /\ stPc' = "dump1"
    /\ files' = OpenW(files, OAUTH1_FILE)
    /\ UNCHANGED <<stArgs, stOld, stErr, ldResult>>
    /\ UNCHANGED <<pgVars, iaVars, apiVars>>

SetDump1 ==
    /\ stPc = "dump1"
    /\ stPc' = "if2"
    /\ files' = Dump(files, OAUTH1_FILE, stArgs.oauth1)
    /\ UNCHANGED <<stArgs, stOld, stErr, ldResult>>
    /\ UNCHANGED <<pgVars, iaVars, apiVars>>

\* the second guard reads the first argument (a copy-and-paste slip)
SetIf2_TestsOauth1 ==
    /\ stPc = "if2"
    /\ stPc' = IF Truthy(stArgs.oauth1) THEN "rm2" ELSE "returned"
    /\ UNCHANGED <<files, stArgs, stOld, stErr, ldResult>>
    /\ UNCHANGED <<pgVars, iaVars, apiVars>>

\* if oauth2_token:
SetIf2 ==
    /\ stPc = "if2"
    /\ stPc' = IF Truthy(stArgs.oauth2) THEN "rm2" ELSE "returned"
    /\ UNCHANGED <<files, stArgs, stOld, stErr, ldResult>>
    /\ UNCHANGED <<pgVars, iaVars, apiVars>>

SetRemove2 ==
    /\ stPc = "rm2"
    /\ IF RemoveRaises(files, OAUTH2_FILE)
       THEN /\ stPc' = "raised"
            /\ stErr' = "FileNotFoundError"
            /\ UNCHANGED files
       ELSE /\ stPc' = "open2"
            /\ files' = Remove(files, OAUTH2_FILE)
            /\ UNCHANGED stErr
    /\ UNCHANGED <<stArgs, stOld, ldResult>>
    /\ UNCHANGED <<pgVars, iaVars, apiVars>>

SetOpen2 ==
    /\ stPc = "open2"
    /\ stPc' = "dump2"
    /\ files' = OpenW(files, OAUTH2_FILE)
    /\ UNCHANGED <<stArgs, stOld, stErr, ldResult>>
    /\ UNCHANGED <<pgVars, iaVars, apiVars>>

SetDump2 ==
    /\ stPc = "dump2"
    /\ stPc' = "returned"
    /\ files' = Dump(files, OAUTH2_FILE, stArgs.oauth2)
    /\ UNCHANGED <<stArgs, stOld, stErr, ldResult>>
    /\ UNCHANGED <<pgVars, iaVars, apiVars>>

\* the process is stopped between two statements of set_oauth
Interrupt ==
    /\ stPc \in StoreRunning
    /\ stPc' = "interrupted"
    /\ stErr' = "Interrupted"
    /\ UNCHANGED <<files, stArgs, stOld, ldResult>>
    /\ UNCHANGED <<pgVars, iaVars, apiVars>>

\* get_oauth called once set_oauth is over
GetOauth ==
    /\ stPc \in {"returned", "raised", "interrupted"}
    /\ stPc' = "loaded"
    /\ ldResult' = get_oauth(files)
    /\ UNCHANGED <<files, stArgs, stOld, stErr>>
    /\ UNCHANGED <<pgVars, iaVars, apiVars>>

\* the caller goes on to its next set_oauth
NextCall ==
    /\ stPc = "loaded"
    /\ stPc' = "idle"
    /\ UNCHANGED <<files, stArgs, stOld, stErr, ldResult>>
    /\ UNCHANGED <<pgVars, iaVars, apiVars>>

StoreInit ==
    /\ files \in [FileNames -> FileContents]
    /\ stPc = "idle"
    /\ stArgs = [oauth1 |-> None, oauth2 |-> None]
    /\ stOld = files
    /\ stErr = "none"
    /\ ldResult = NoResult

StoreIdle ==
    /\ files = [n \in FileNames |-> Absent]
    /\ stPc = "idle"
    /\ stArgs = [oauth1 |-> None, oauth2 |-> None]
    /\ stOld = files
    /\ stErr = "none"
    /\ ldResult = NoResult

StoreNext ==
    \/ \E o1 \in OAuth1Tokens \cup {None}, o2 \in OAuth2Tokens \cup {None} :
           SetOauthCall(o1, o2)
    \/ SetIf1
    \/ SetRemove1
    \/ SetOpen1
    \/ SetDump1
    \/ SetIf2
    \/ SetRemove2
    \/ SetOpen2
    \/ SetDump2
    \/ Interrupt
    \/ GetOauth
    \/ NextCall

-----------------------------------------------------------------------------
(* Garmin.get_activities_by_date and Garmin.get_goals: the pagination loops *)

\* the most non-empty pages the server holds for one listing
MaxPages == 2

\* the most items the server puts in one page
MaxPageLen == 2

\* the largest limit argument a caller of get_goals passes, besides the default
MaxLimitArg == 2

\* limit = 20 in get_activities_by_date
ActivitiesLimit == 20

\* get_goals(status="active", start=1, limit=30)
GoalsDefaultStart == 1

GoalsDefaultLimit == 30

Items == {"a", "b"}

RECURSIVE SeqsUpTo(_)
SeqsUpTo(n) ==
    IF n = 0 THEN {<<>>}
    ELSE LET shorter == SeqsUpTo(n - 1)
         IN  shorter \cup {Append(q, x) : q \in {r \in shorter : Len(r) = n - 1}, x \in Items}

\* what the server may answer to one page request
ServerPages == SeqsUpTo(MaxPageLen)

NonEmptyServed == Cardinality({k \in 1..Len(pgPages) : pgPages[k] # <<>>})

\* the server's listing is finite: after MaxPages non-empty pages it has nothing left
ServerMayAnswer(page) ==
    page # <<>> => NonEmptyServed < MaxPages

\* activities.extend(act) / goals.extend(goals_json), put first instead of last
Extend_Prepend(acc, page) ==
    page \o acc

\* activities.extend(act) / goals.extend(goals_json)
Extend(acc, page) ==
    acc \o page

\* the loop ends on a page shorter than limit instead of on an empty one
LoopContinues_UntilShort(page, limit) ==
    Len(page) >= limit

\* if act: / if goals_json: a list is truthy when it has an item
LoopContinues(page, limit) ==
    page # <<>>

get_activities_by_date ==
    /\ pgPc = "idle"
    /\ pgOp' = "get_activities_by_date"
    /\ pgPc' = "loop"
    /\ pgStart' = 0
    /\ pgStart0' = 0
    /\ pgLimit' = ActivitiesLimit
    /\ pgAcc' = <<>>
    /\ pgSent' = <<>>
    /\ pgPages' = <<>>
    /\ pgResult' = <<>>
    /\ UNCHANGED <<storeVars, iaVars, apiVars>>

get_goals(start, limit) ==
    /\ pgPc = "idle"
    /\ pgOp' = "get_goals"
    /\ pgPc' = "loop"
    /\ pgStart' = start
    /\ pgStart0' = start
    /\ pgLimit' = limit
    /\ pgAcc' = <<>>
    /\ pgSent' = <<>>
    /\ pgPages' = <<>>
    /\ pgResult' = <<>>
    /\ UNCHANGED <<storeVars, iaVars, apiVars>>

\* the cursor moves on by as many items as the page held
Advance_ByPageLen(start, limit, page) ==
    start + Len(page)

\* start = start + limit
Advance(start, limit, page) ==
    start + limit

\* one turn of while True whose connectapi call returned `page`
LoopTurn(page) ==
    /\ pgPc = "loop"
    /\ ServerMayAnswer(page)
    /\ pgSent' = Append(pgSent, pgStart)
    /\ pgPages' = Append(pgPages, page)
    /\ IF LoopContinues(page, pgLimit)
       THEN /\ pgAcc' = Extend(pgAcc, page)
            /\ pgStart' = Advance(pgStart, pgLimit, page)
            /\ pgPc' = "loop"
            /\ UNCHANGED pgResult
       ELSE /\ pgPc' = "done"
            /\ pgResult' = pgAcc
            /\ UNCHANGED <<pgAcc, pgStart>>
    /\ UNCHANGED <<pgOp, pgStart0, pgLimit>>
    /\ UNCHANGED <<storeVars, iaVars, apiVars>>

ActivitiesPage ==
    /\ pgOp = "get_activities_by_date"
    /\ \E page \in ServerPages : LoopTurn(page)

GoalsPage ==
    /\ pgOp = "get_goals"
    /\ \E page \in ServerPages : LoopTurn(page)

\* the exception is caught inside the loop and the list built so far is returned
PageRaises_ReturnsPartial ==
    /\ pgPc = "loop"
    /\ pgSent' = Append(pgSent, pgStart)
    /\ pgPc' = "done"
    /\ pgResult' = pgAcc
    /\ UNCHANGED <<pgOp, pgStart, pgStart0, pgLimit, pgAcc, pgPages>>
    /\ UNCHANGED <<storeVars, iaVars, apiVars>>

\* connectapi raises inside the loop: the exception leaves the accessor
PageRaises ==
    /\ pgPc = "loop"
    /\ pgSent' = Append(pgSent, pgStart)
    /\ pgPc' = "raised"
    /\ UNCHANGED <<pgOp, pgStart, pgStart0, pgLimit, pgAcc, pgPages, pgResult>>
    /\ UNCHANGED <<storeVars, iaVars, apiVars>>

\* the caller, having its list or its exception, is free to call again
PgReturn ==
    /\ pgPc \in {"done", "raised"}
    /\ pgPc' = "idle"
    /\ UNCHANGED <<pgOp, pgStart, pgStart0, pgLimit, pgAcc, pgSent, pgPages, pgResult>>
    /\ UNCHANGED <<storeVars, iaVars, apiVars>>

PgIdle ==
    /\ pgOp = "none"
    /\ pgPc = "idle"
    /\ pgStart = 0
    /\ pgStart0 = 0
    /\ pgLimit = 0
    /\ pgAcc = <<>>
    /\ pgSent = <<>>
    /\ pgPages = <<>>
    /\ pgResult = <<>>

GoalsStartArgs == {0, GoalsDefaultStart}

GoalsLimitArgs == (1..MaxLimitArg) \cup {GoalsDefaultLimit}

PgNext ==
    \/ get_activities_by_date
    \/ \E start \in GoalsStartArgs, limit \in GoalsLimitArgs : get_goals(start, limit)
    \/ ActivitiesPage
    \/ GoalsPage
    \/ PageRaises
    \/ PgReturn

-----------------------------------------------------------------------------
(* FileOAuthRepository.set_oauth run from its first statement to its last *)

\* one "if token:" block: remove the file, open it for writing, dump the token
SaveOne(fs, name, tok) ==
    IF ~Truthy(tok) THEN [files |-> fs, err |-> "none"]
    ELSE IF RemoveRaises(fs, name) THEN [files |-> fs, err |-> "FileNotFoundError"]
    ELSE [files |-> Dump(OpenW(Remove(fs, name), name), name, tok), err |-> "none"]

set_oauth(fs, o1, o2) ==
    LET first == SaveOne(fs, OAUTH1_FILE, o1)
    IN  IF first.err # "none" THEN first
        ELSE SaveOne(first.files, OAUTH2_FILE, o2)

-----------------------------------------------------------------------------
(* init_api and Garmin.login *)

\* how many times in a row the process is started
MaxRuns == 2

\* the second-factor codes a provider can hand back
MfaCodes == {"c1", "c2"}

\* what a request to the service may raise: the service's refusal, or no connection
HttpErrors == {"GarthHTTPError", "ConnectionError"}

\* how garth.login reports a refused second-factor code: as the HTTP error of the
\* request, or as its own GarthException when the sign-in page is not the success page
MfaRejections == {"GarthHTTPError", "GarthException"}

NoneStr == "None"

\* Garmin.__init__: prompt_mfa as given, the profile fields None, a garth client
\* that holds no token yet
NewGarmin(prompt_mfa) ==
    [prompt_mfa |-> prompt_mfa,
     display_name |-> NoneStr, full_name |-> NoneStr, unit_system |-> NoneStr,
     oauth1_token |-> None, oauth2_token |-> None]

NewLog(run) ==
    [run |-> run,                \* which start of the process this is
     restore |-> "pending",      \* the restore login: "pending", "ok" or "failed"
     caught |-> "none",          \* the exception the first except clause caught
     credLogins |-> 0,           \* calls of garth.login(username, password)
     exchange |-> "none",        \* the service's answer: "accepted" or "rejected"
     challenged |-> FALSE,       \* the service demanded a second factor
     mfaInjected |-> 0,          \* calls of the prompt_mfa given to Garmin
     mfaDefault |-> 0,           \* calls of garth's built-in prompt
     mfaCode |-> NoneStr,        \* the code a provider returned
     mfaSubmitted |-> NoneStr,   \* the code sent to the service
     mfaBy |-> NoneStr,          \* the provider whose code was sent
     credLoginOk |-> FALSE,      \* login(use_creds=True) returned True
     dumpsCalls |-> 0,           \* calls of garmin.garth.dumps()
     loggedOut |-> FALSE,        \* garmin.logout() has been called
     failedAt |-> "none"]        \* the step of Garmin.login that raised last

\* the first except clause without Exception: only the errors it names
RestoreCatches_NamedOnly(e) ==
    e \in {"FileNotFoundError", "GarthHTTPError", "GarminConnectAuthenticationError"}

\* except (Exception, FileNotFoundError, GarthHTTPError, GarminConnectAuthenticationError):
\* naming Exception, the clause catches every error
RestoreCatches(e) ==
    TRUE

\* except (FileNotFoundError, GarthHTTPError, GarminConnectAuthenticationError,
\*         requests.exceptions.HTTPError)
CredsCatches(e) ==
    e \in {"FileNotFoundError", "GarthHTTPError", "GarminConnectAuthenticationError",
           "HTTPError"}

\* an exception leaves garmin.login() of the first try block
RestoreFails(e, log) ==
    IF RestoreCatches(e)
    THEN /\ iaPc' = "login"
         /\ iaTry' = "creds"
         /\ garmin' = NewGarmin("get_mfa")
         /\ iaLog' = [log EXCEPT !.restore = "failed", !.caught = e]
         /\ UNCHANGED <<iaResult, iaErr>>
    ELSE /\ iaPc' = "raised"
         /\ iaResult' = "raised"
         /\ iaErr' = e
         /\ iaLog' = [log EXCEPT !.restore = "failed"]
         /\ UNCHANGED <<iaTry, garmin>>

\* the second except clause logs the error and, lacking its return None, goes on
\* to return garmin
CredsFails_FallsThrough(e, log) ==
    /\ IF CredsCatches(e)
       THEN iaPc' = "returned" /\ iaResult' = "garmin"
       ELSE iaPc' = "raised" /\ iaResult' = "raised"
    /\ iaErr' = e
    /\ iaLog' = log
    /\ UNCHANGED iaTry

\* an exception leaves the second try block: logged and None returned, or let through
CredsFails(e, log) ==
    /\ IF CredsCatches(e)
       THEN iaPc' = "returned" /\ iaResult' = "None"
       ELSE iaPc' = "raised" /\ iaResult' = "raised"
    /\ iaErr' = e
    /\ iaLog' = log
    /\ UNCHANGED iaTry

Fails(e, log) ==
    IF iaTry = "restore"
    THEN RestoreFails(e, log)
    ELSE CredsFails(e, log) /\ UNCHANGED garmin

\* init_api up to garmin.login() of the first try block
init_api ==
    /\ iaPc = "start"
    /\ iaPc' = "login"
    /\ iaTry' = "restore"
    /\ garmin' = NewGarmin(NoneStr)
    /\ iaFiles0' = files
    /\ UNCHANGED <<iaLog, iaResult, iaErr>>
    /\ UNCHANGED <<storeVars, pgVars, apiVars>>

\* login(use_creds=False): self.garth.loads()
LoginLoads ==
    /\ iaPc = "login"
    /\ iaTry = "restore"
    /\ LET r == get_oauth(files)
       IN  IF r.status = "ok"
           THEN /\ garmin' = [garmin EXCEPT !.oauth1_token = r.oauth1,
                                            !.oauth2_token = r.oauth2]
                /\ iaPc' = "profile"
                /\ UNCHANGED <<iaTry, iaLog, iaResult, iaErr>>
           ELSE Fails(r.status, [iaLog EXCEPT !.failedAt = "loads"])
    /\ UNCHANGED <<iaFiles0, storeVars, pgVars, apiVars>>

\* the tokens a successful exchange hands to the garth client
Configure(g, o1, o2) ==
    [g EXCEPT !.oauth1_token = o1, !.oauth2_token = o2]

\* login(use_creds=True): self.garth.login(self.username, self.password)
LoginCreds ==
    /\ iaPc = "login"
    /\ iaTry = "creds"
    /\ LET log == [iaLog EXCEPT !.credLogins = @ + 1]
       IN  \/ \E o1 \in OAuth1Tokens, o2 \in OAuth2Tokens :
                /\ garmin' = Configure(garmin, o1, o2)
                /\ iaPc' = "profile"
                /\ iaLog' = [log EXCEPT !.exchange = "accepted"]
                /\ UNCHANGED <<iaTry, iaResult, iaErr>>
           \/ /\ iaPc' = "mfa"
              /\ iaLog' = [log EXCEPT !.challenged = TRUE]
              /\ UNCHANGED <<iaTry, garmin, iaResult, iaErr>>
           \/ Fails("GarthHTTPError", [log EXCEPT !.exchange = "rejected",
                                                   !.failedAt = "exchange"])
           \/ Fails("ConnectionError", [log EXCEPT !.failedAt = "exchange"])
    /\ UNCHANGED <<iaFiles0, storeVars, pgVars, apiVars>>

\* the provider garth.login is given: the one handed to Garmin
LoginPromptMfa_Injected(g) ==
    g.prompt_mfa

\* garth.login is called with the username and the password only, so garth asks
\* through the prompt it is built with
LoginPromptMfa(g) ==
    "garth_default"

\* the second-factor challenge inside garth.login: ask the provider, send the code
LoginMfa ==
    /\ iaPc = "mfa"
    /\ \E code \in MfaCodes :
        LET by == LoginPromptMfa(garmin)
            log == [iaLog EXCEPT
                      !.mfaInjected = IF by = "get_mfa" THEN @ + 1 ELSE @,
                      !.mfaDefault = IF by = "garth_default" THEN @ + 1 ELSE @,
                      !.mfaCode = code, !.mfaSubmitted = code, !.mfaBy = by]
        IN  \/ \E o1 \in OAuth1Tokens, o2 \in OAuth2Tokens :
                 /\ garmin' = Configure(garmin, o1, o2)
                 /\ iaPc' = "profile"
                 /\ iaLog' = [log EXCEPT !.exchange = "accepted"]
                 /\ UNCHANGED <<iaTry, iaResult, iaErr>>
            \/ \E e \in MfaRejections :
                 Fails(e, [log EXCEPT !.exchange = "rejected", !.failedAt = "exchange"])
    /\ UNCHANGED <<iaFiles0, storeVars, pgVars, apiVars>>

\* the social profile the service answers garth.profile with
ServiceProfiles == [displayName : {"dn"}, fullName : {"fn"}]

\* the user settings the service answers with: settings["userData"]["measurementSystem"]
ServiceSettings == [userData : [measurementSystem : {"metric"}]]

\* dict.get(key): the value, or None when the key is missing
Get(d, key) ==
    IF key \in DOMAIN d THEN d[key] ELSE NoneStr

\* only the display name is cached
CacheProfile_NoFullName(g, profile) ==
    [g EXCEPT !.display_name = Get(profile, "displayName")]

\* self.display_name = self.garth.profile.get("displayName")
\* self.full_name = self.garth.profile.get("fullName")
CacheProfile(g, profile) ==
    [g EXCEPT !.display_name = Get(profile, "displayName"),
              !.full_name = Get(profile, "fullName")]

LoginProfile ==
    /\ iaPc = "profile"
    /\ \/ /\ \E profile \in ServiceProfiles : garmin' = CacheProfile(garmin, profile)
          /\ iaPc' = "settings"
          /\ UNCHANGED <<iaTry, iaLog, iaResult, iaErr>>
       \/ \E e \in HttpErrors : Fails(e, [iaLog EXCEPT !.failedAt = "profile"])
    /\ UNCHANGED <<iaFiles0, storeVars, pgVars, apiVars>>

\* after login() returned True in the second try block, garmin.garth.dumps() is skipped
AfterLogin_NoDumps ==
    /\ iaPc' = "returned"
    /\ iaResult' = "garmin"
    /\ iaLog' = IF iaTry = "restore"
                THEN [iaLog EXCEPT !.restore = "ok"]
                ELSE [iaLog EXCEPT !.credLoginOk = TRUE]

\* login() returned True: the first try block is over and init_api returns garmin;
\* the second goes on to garmin.garth.dumps()
AfterLogin ==
    IF iaTry = "restore"
    THEN /\ iaPc' = "returned"
         /\ iaResult' = "garmin"
         /\ iaLog' = [iaLog EXCEPT !.restore = "ok"]
    ELSE /\ iaPc' = "dumps"
         /\ iaLog' = [iaLog EXCEPT !.credLoginOk = TRUE]
         /\ UNCHANGED iaResult

\* settings = self.garth.connectapi(self.get_url())
\* self.unit_system = settings["userData"]["measurementSystem"]; return True
LoginSettings ==
    /\ iaPc = "settings"
    /\ \/ /\ \E settings \in ServiceSettings :
                garmin' = [garmin EXCEPT !.unit_system = settings.userData.measurementSystem]
          /\ AfterLogin
          /\ UNCHANGED <<iaTry, iaErr>>
       \/ \E e \in HttpErrors : Fails(e, [iaLog EXCEPT !.failedAt = "settings"])
    /\ UNCHANGED <<iaFiles0, storeVars, pgVars, apiVars>>

\* garmin.garth.dumps(): repository.set_oauth(oauth1_token, oauth2_token)
Dumps ==
    /\ iaPc = "dumps"
    /\ LET r == set_oauth(files, garmin.oauth1_token, garmin.oauth2_token)
           log == [iaLog EXCEPT !.dumpsCalls = @ + 1]
       IN  /\ files' = r.files
           /\ IF r.err = "none"
              THEN /\ iaPc' = "returned"
                   /\ iaResult' = "garmin"
                   /\ iaLog' = log
                   /\ UNCHANGED <<iaTry, iaErr>>
              ELSE CredsFails(r.err, log)
    /\ UNCHANGED <<garmin, iaFiles0, stCallVars, pgVars, apiVars>>

\* Garmin.logout(): logger.error("Deprecated: ...") and nothing else
logout(g) ==
    g

\* the caller of init_api logs out of the session it was given
Logout ==
    /\ iaPc = "returned"
    /\ iaResult = "garmin"
    /\ garmin' = logout(garmin)
    /\ iaLog' = [iaLog EXCEPT !.loggedOut = TRUE]
    /\ UNCHANGED <<iaPc, iaTry, iaResult, iaErr>>
    /\ UNCHANGED <<iaFiles0, storeVars, pgVars, apiVars>>

\* the process is started again over the directory the last run left
Restart ==
    /\ iaPc \in {"returned", "raised"}
    /\ iaLog.run < MaxRuns
    /\ iaPc' = "start"
    /\ iaTry' = "restore"
    /\ garmin' = NewGarmin(NoneStr)
    /\ iaLog' = NewLog(iaLog.run + 1)
    /\ iaResult' = "none"
    /\ iaErr' = "none"
    /\ UNCHANGED <<iaFiles0, storeVars, pgVars, apiVars>>

IaIdle ==
    /\ iaPc = "start"
    /\ iaTry = "restore"
    /\ garmin = NewGarmin(NoneStr)
    /\ iaLog = NewLog(1)
    /\ iaResult = "none"
    /\ iaErr = "none"
    /\ iaFiles0 = [n \in FileNames |-> Absent]

IaNext ==
    \/ init_api
    \/ LoginLoads
    \/ LoginCreds
    \/ LoginMfa
    \/ LoginProfile
    \/ LoginSettings
    \/ Dumps
    \/ Logout
    \/ Restart

-----------------------------------------------------------------------------
(* The endpoint registry API_URLS and Garmin.get_url *)

\* a template is the sequence of its literal pieces and its {named} fields
Lit(s) ==
    [t |-> "lit", v |-> s]

Ph(name) ==
    [t |-> "ph", v |-> name]

\* src/constants.py: the function name of an accessor -> its URL template
API_URLS ==
    [login |->
        <<Lit("/userprofile-service/userprofile/user-settings")>>,
     get_user_profile |->
        <<Lit("/userprofile-service/userprofile/user-settings")>>,
     get_devices |->
        <<Lit("/device-service/deviceregistration/devices")>>,
     get_device_settings |->
        <<Lit("/device-service/deviceservice/device-info/settings/"), Ph("device_id")>>,
     get_device_last_used |->
        <<Lit("/device-service/deviceservice/mylastused")>>,
     get_primary_training_device |->
        <<Lit("/web-gateway/device-info/primary-training-device")>>,
     get_device_solar_data |->
        <<Lit("/web-gateway/solar/"), Ph("device_id"), Lit("/"), Ph("startdate"), Lit("/"), Ph("enddate")>>,
     get_body_composition |->
        <<Lit("/weight-service/weight/dateRange")>>,
     add_weigh_in |->
        <<Lit("/weight-service/user-weight")>>,
     get_weigh_ins |->
        <<Lit("/weight-service/user-weight/weight/range/"), Ph("startdate"), Lit("/"), Ph("enddate")>>,
     get_daily_weigh_ins |->
        <<Lit("/weight-service/user-weight/weight/dayview/"), Ph("cdate")>>,
     delete_weigh_in |->
        <<Lit("/weight-service/user-weight/weight/"), Ph("cdate"), Lit("/byversion/"), Ph("weight_pk")>>,
     get_user_summary |->
        <<Lit("/usersummary-service/usersummary/daily/"), Ph("display_name")>>,
     get_max_metrics |->
        <<Lit("/metrics-service/metrics/maxmet/daily/"), Ph("cdate"), Lit("/"), Ph("cdate")>>,
     get_hydration_data |->
        <<Lit("/usersummary-service/usersummary/hydration/daily/"), Ph("cdate")>>,
     add_hydration_data |->
        <<Lit("usersummary-service/usersummary/hydration/log")>>,
     get_daily_steps |->
        <<Lit("/usersummary-service/stats/steps/daily/"), Ph("start"), Lit("/"), Ph("end")>>,
     get_personal_record |->
        <<Lit("/personalrecord-service/personalrecord/prs/"), Ph("display_name")>>,
     get_earned_badges |->
        <<Lit("/badge-service/badge/earned")>>,
     get_adhoc_challenges |->
        <<Lit("/adhocchallenge-service/adHocChallenge/historical")>>,
     get_badge_challenges |->
        <<Lit("/badgechallenge-service/badgeChallenge/completed")>>,
     get_available_badge_challenges |->
        <<Lit("/badgechallenge-service/badgeChallenge/available")>>,
     get_non_completed_badge_challenges |->
        <<Lit("/badgechallenge-service/badgeChallenge/non-completed")>>,
     get_inprogress_virtual_challenges |->
        <<Lit("/badgechallenge-service/virtualChallenge/inProgress")>>,
     get_activities |->
        <<Lit("/activitylist-service/activities/search/activities")>>,
     get_activities_by_date |->
        <<Lit("/activitylist-service/activities/search/activities")>>,
     get_gear_activities |->
        <<Lit("/activitylist-service/activities/"), Ph("gear_uuid"), Lit("/gear?start=0&limit=9999")>>,
     set_activity_name |->
        <<Lit("/activity-service/activity/"), Ph("activity_id")>>,
     change_activity_visibility |->
        <<Lit("/activity-service/activity/"), Ph("activity_id")>>,
     get_activity_splits |->
        <<Lit("/activity-service/activity/"), Ph("activity_id"), Lit("/splits")>>,
     get_activity_typed_splits |->
        <<Lit("/activity-service/activity/"), Ph("activity_id"), Lit("/typedsplits")>>,
     get_activity_split_summaries |->
        <<Lit("/activity-service/activity/"), Ph("activity_id"), Lit("/split_summaries")>>,
     get_activity_weather |->
        <<Lit("/activity-service/activity/"), Ph("activity_id"), Lit("/weather")>>,
     get_activity_hr_in_timezones |->
        <<Lit("/activity-service/activity/"), Ph("activity_id"), Lit("/hrTimeInZones")>>,
     get_activity |->
        <<Lit("/activity-service/activity/"), Ph("activity_id")>>,
     get_activity_details |->
        <<Lit("/activity-service/activity/"), Ph("activity_id"), Lit("/details")>>,
     get_activity_exercise_sets |->
        <<Lit("/activity-service/activity/"), Ph("activity_id"), Lit("/exerciseSets")>>,
     get_activity_types |->
        <<Lit("/activity-service/activity/activityTypes")>>,
     upload_activity |->
        <<Lit("/upload-service/upload")>>]


\* every method of Garmin that calls self.get_url(...) -> the names of the keyword
\* arguments it passes (the number is the line of the call in service.py)
AccessorKwargs ==
    [login |-> {},   \* 120
     get_user_summary |-> {"display_name"},   \* 147
     get_daily_steps |-> {"start", "end"},   \* 178
     get_body_composition |-> {},   \* 208
     add_weigh_in |-> {},   \* 261
     get_weigh_ins |-> {"start_date", "end_date"},   \* 279
     get_daily_weigh_ins |-> {"cdate"},   \* 288
     delete_weigh_in |-> {"weight_pk", "cdate"},   \* 296
     get_body_battery |-> {},   \* 338
     get_body_battery_events |-> {"cdate"},   \* 349
     set_blood_pressure |-> {},   \* 366
     get_blood_pressure |-> {"start_date", "end_date"},   \* 391
     get_max_metrics |-> {"cdate"},   \* 400
     add_hydration_data |-> {},   \* 414
     get_hydration_data |-> {"cdate"},   \* 447
     get_spo2_data |-> {"cdate"},   \* 463
     get_all_day_stress |-> {"cdate"},   \* 471
     get_all_day_events |-> {"cdate"},   \* 482
     get_personal_record |-> {"display_name"},   \* 490
     get_earned_badges |-> {},   \* 498
     get_adhoc_challenges |-> {},   \* 506
     get_badge_challenges |-> {},   \* 515
     get_available_badge_challenges |-> {},   \* 524
     get_non_completed_badge_challenges |-> {},   \* 533
     get_inprogress_virtual_challenges |-> {},   \* 542
     get_sleep_data |-> {"display_name"},   \* 550
     get_stress_data |-> {"cdate"},   \* 559
     get_rhr_day |-> {"display_name"},   \* 567
     get_fitnessage_data |-> {"cdate"},   \* 667
     get_devices |-> {},   \* 699
     get_device_settings |-> {"device_id"},   \* 707
     get_primary_training_device |-> {},   \* 717
     get_device_solar_data |-> {},   \* 734
     get_device_last_used |-> {},   \* 754
     get_activities |-> {},   \* 762
     get_activities_fordate |-> {"for_date"},   \* 771
     set_activity_name |-> {"activity_id"},   \* 779
     change_activity_visibility |-> {"activity_id"},   \* 787
     upload_activity |-> {},   \* 819
     get_activities_by_date |-> {},   \* 856
     get_progress_summary_between_dates |-> {},   \* 892
     get_activity_types |-> {},   \* 905
     get_activity_splits |-> {"activity_id"},   \* 1012
     get_activity_typed_splits |-> {"activity_id"},   \* 1021
     get_activity_split_summaries |-> {"activity_id"},   \* 1029
     get_activity_weather |-> {"activity_id"},   \* 1037
     get_activity_hr_in_timezones |-> {"activity_id"},   \* 1045
     get_activity |-> {"activity_id"},   \* 1053
     get_activity_details |-> {"activity_id"},   \* 1066
     get_activity_exercise_sets |-> {"activity_id"},   \* 1074
     get_gear_activities |-> {"gear_uuid"},   \* 1094
     get_user_profile |-> {},   \* 1102
     get_menstrual_data_for_date |-> {"for_date"},   \* 1150
     get_menstrual_calendar_data |-> {"start_date", "end_date"}]   \* 1158

\* the argument values an accessor is called with
ParamValues == {"v1", "v2"}

\* the names of the fields of a template
Placeholders(tpl) ==
    {tpl[i].v : i \in {j \in DOMAIN tpl : tpl[j].t = "ph"}}

\* str.format(**kw): every field replaced by the keyword argument of its name,
\* KeyError when there is none; keyword arguments no field names are ignored
Format(tpl, kw) ==
    IF Placeholders(tpl) \subseteq DOMAIN kw
    THEN [err |-> "none",
          url |-> [i \in DOMAIN tpl |-> IF tpl[i].t = "ph" THEN kw[tpl[i].v] ELSE tpl[i].v]]
    ELSE [err |-> "KeyError", url |-> <<>>]

\* get_caller_name(skip=2) with return_format "method": the code name of the frame
\* two levels up the stack, "" when the stack is not that deep
get_caller_name(stack) ==
    IF Len(stack) < 3 THEN "" ELSE stack[3]

\* the stack inside get_caller_name when an accessor has called get_url
StackOf(accessor) ==
    <<"get_caller_name", "get_url", accessor>>

\* API_URLS.get(name, ""): the template, or the empty string
TemplateOf(name) ==
    IF name \in DOMAIN API_URLS THEN API_URLS[name] ELSE <<>>

\* API_URLS.get(get_caller_name(), "").format(**url_params)
get_url(stack, url_params) ==
    Format(TemplateOf(get_caller_name(stack)), url_params)

-----------------------------------------------------------------------------
(* The accessors: resolve the URL, send one request, hand back the answer *)

\* login and get_activities_by_date are LoginSettings and ActivitiesPage above
Accessors == (DOMAIN AccessorKwargs) \ {"login", "get_activities_by_date"}

\* return self.garth.post(...) / put(...) / request(...): the Response itself
RawAccessors ==
    {"add_weigh_in", "delete_weigh_in", "set_blood_pressure", "add_hydration_data",
     "set_activity_name", "change_activity_visibility", "upload_activity"}

\* the statuses the service answers a request with
HttpStatuses == {200, 401, 429, 500}

\* the decoded JSON documents of a 200 answer
JsonBodies ==
    {[privacyProtected |-> TRUE, totalSteps |-> 0],
     [privacyProtected |-> FALSE, totalSteps |-> 7],
     [deviceSolarInput |-> "solar"],
     [totalSteps |-> 7]}

NoResponse == [status |-> 0, json |-> None]

\* Garmin.connectapi: the path is handed to the garth client, once
connectapi(calls, path) ==
    Append(calls, [op |-> "connectapi", path |-> path])

\* self.garth.post / put / request
garth_request(calls, path) ==
    Append(calls, [op |-> "request", path |-> path])

\* what the accessor does with the decoded answer of connectapi
AfterConnectapi(accessor, response) ==
    CASE accessor = "get_user_summary" ->
            IF "privacyProtected" \notin DOMAIN response
            THEN [err |-> "KeyError", result |-> None]
            ELSE IF response.privacyProtected = TRUE
            THEN [err |-> "GarminConnectAuthenticationError", result |-> None]
            ELSE [err |-> "none", result |-> response]
      [] accessor = "get_device_solar_data" ->
            IF "deviceSolarInput" \notin DOMAIN response
            THEN [err |-> "KeyError", result |-> None]
            ELSE [err |-> "none", result |-> response.deviceSolarInput]
      [] OTHER -> [err |-> "none", result |-> response]

\* an accessor is called: url = self.get_url(...)
AccessorResolve ==
    /\ scPc = "idle"
    /\ \E a \in Accessors : \E kw \in [AccessorKwargs[a] -> ParamValues] :
        LET r == get_url(StackOf(a), kw)
        IN  /\ scCaller' = a
            /\ scKwargs' = kw
            /\ scCalls' = <<>>
            /\ scResp' = NoResponse
            /\ scResult' = None
            /\ IF r.err = "none"
               THEN scPc' = "resolved" /\ scUrl' = r.url /\ scErr' = "none"
               ELSE scPc' = "raised" /\ scUrl' = <<>> /\ scErr' = r.err
    /\ UNCHANGED <<storeVars, pgVars, iaVars, wiVars, ccVars>>

\* the request of the accessor and its return statement; garth raises GarthHTTPError
\* for every answer that is not a success
AccessorRequest ==
    /\ scPc = "resolved"
    /\ scCalls' = IF scCaller \in RawAccessors
                  THEN garth_request(scCalls, scUrl)
                  ELSE connectapi(scCalls, scUrl)
    /\ \E status \in HttpStatuses :
        IF status # 200
        THEN /\ scResp' = [status |-> status, json |-> None]
             /\ scPc' = "raised"
             /\ scErr' = "GarthHTTPError"
             /\ UNCHANGED scResult
        ELSE \E body \in JsonBodies :
             LET r == IF scCaller \in RawAccessors
                      THEN [err |-> "none", result |-> [status |-> status, json |-> body]]
                      ELSE AfterConnectapi(scCaller, body)
             IN  /\ scResp' = [status |-> status, json |-> body]
                 /\ scPc' = IF r.err = "none" THEN "returned" ELSE "raised"
                 /\ scErr' = r.err
                 /\ scResult' = r.result
    /\ UNCHANGED <<scCaller, scKwargs, scUrl>>
    /\ UNCHANGED <<storeVars, pgVars, iaVars, wiVars, ccVars>>

\* the caller goes on to its next accessor
ScReturn ==
    /\ scPc \in {"returned", "raised"}
    /\ scPc' = "idle"
    /\ UNCHANGED <<scCaller, scKwargs, scUrl, scCalls, scResp, scResult, scErr>>
    /\ UNCHANGED <<storeVars, pgVars, iaVars, wiVars, ccVars>>

ScIdle ==
    /\ scPc = "idle"
    /\ scCaller = "none"
    /\ scKwargs = <<>>
    /\ scUrl = <<>>
    /\ scCalls = <<>>
    /\ scResp = NoResponse
    /\ scResult = None
    /\ scErr = "none"

ScNext ==
    \/ AccessorResolve
    \/ AccessorRequest
    \/ ScReturn

-----------------------------------------------------------------------------
(* Garmin.delete_weigh_ins and Garmin.delete_weigh_in *)

\* the most weigh-ins the service lists for one date
MaxWeighIns == 3

SamplePks == 1..MaxWeighIns

Dates == {"d1", "d2"}

\* the lists the service may answer with: every weigh-in has its own samplePk
WeighInLists ==
    {[i \in DOMAIN s |-> [samplePk |-> s[i]]] :
        s \in {q \in UNION {[1..n -> SamplePks] : n \in 0..MaxWeighIns} :
                  \A i, j \in DOMAIN q : i # j => q[i] # q[j]}}

\* the documents get_daily_weigh_ins may return: with the list, or without the key
DailyWeighIns ==
    {[dateWeightList |-> l] : l \in WeighInLists} \cup {[totalAverage |-> 0]}

PyInt(n) ==
    [cls |-> "int", value |-> n]

\* get_daily_weigh_ins(cdate): url = self.get_url(cdate=cdate), then connectapi
get_daily_weigh_ins(sent, cdate) ==
    Append(sent, [method |-> "GET",
                  url |-> get_url(StackOf("get_daily_weigh_ins"), [cdate |-> cdate]).url])

\* the body of delete_weigh_in written into the loop of delete_weigh_ins: get_url
\* then sees delete_weigh_ins as its caller
delete_weigh_in_Inlined(sent, weight_pk, cdate) ==
    Append(sent, [method |-> "DELETE",
                  url |-> get_url(StackOf("delete_weigh_ins"),
                                  [weight_pk |-> weight_pk, cdate |-> cdate]).url])

\* delete_weigh_in(weight_pk, cdate): url = self.get_url(weight_pk=weight_pk, cdate=cdate),
\* then self.garth.request("DELETE", "connectapi", url, api=True)
delete_weigh_in(sent, weight_pk, cdate) ==
    Append(sent, [method |-> "DELETE",
                  url |-> get_url(StackOf("delete_weigh_in"),
                                  [weight_pk |-> weight_pk, cdate |-> cdate]).url])

\* daily_weigh_ins.get("dateWeightList", [])
DateWeightList(daily_weigh_ins) ==
    IF "dateWeightList" \in DOMAIN daily_weigh_ins
    THEN daily_weigh_ins.dateWeightList
    ELSE <<>>

\* elif len(weigh_ins) >= 1: a single weigh-in is held back like several
Branch_SingleHeldBack(weigh_ins, delete_all) ==
    IF Len(weigh_ins) = 0 THEN "none"
    ELSE IF Len(weigh_ins) >= 1 /\ ~delete_all THEN "multiple"
    ELSE "loop"

\* the if / elif before the loop: "none" and "multiple" are the two bare returns
Branch(weigh_ins, delete_all) ==
    IF Len(weigh_ins) = 0 THEN "none"
    ELSE IF Len(weigh_ins) > 1 /\ ~delete_all THEN "multiple"
    ELSE "loop"

\* delete_weigh_ins(cdate, delete_all) up to the for loop
delete_weigh_ins(cdate, delete_all) ==
    /\ wiPc = "idle"
    /\ wiCdate' = cdate
    /\ wiDeleteAll' = delete_all
    /\ wiSent' = get_daily_weigh_ins(<<>>, cdate)
    /\ wiIdx' = 0
    /\ \/ /\ wiPc' = "raised"
          /\ wiErr' = "GarthHTTPError"
          /\ wiList' = <<>>
          /\ wiResult' = None
       \/ \E daily_weigh_ins \in DailyWeighIns :
            LET weigh_ins == DateWeightList(daily_weigh_ins)
            IN  /\ wiList' = weigh_ins
                /\ wiErr' = "none"
                /\ wiResult' = None
                /\ wiPc' = IF Branch(weigh_ins, delete_all) = "loop"
                           THEN "loop" ELSE "returned"
    /\ UNCHANGED <<storeVars, pgVars, iaVars, scVars, ccVars>>

\* one turn of "for w in weigh_ins": self.delete_weigh_in(w["samplePk"], cdate)
DeleteNext ==
    /\ wiPc = "loop"
    /\ wiIdx < Len(wiList)
    /\ wiSent' = delete_weigh_in(wiSent, wiList[wiIdx + 1].samplePk, wiCdate)
    /\ \/ /\ wiIdx' = wiIdx + 1
          /\ UNCHANGED <<wiPc, wiErr>>
       \/ /\ wiPc' = "raised"
          /\ wiErr' = "GarthHTTPError"
          /\ UNCHANGED wiIdx
    /\ UNCHANGED <<wiCdate, wiDeleteAll, wiList, wiResult>>
    /\ UNCHANGED <<storeVars, pgVars, iaVars, scVars, ccVars>>

\* return len(weigh_ins)
DeleteDone ==
    /\ wiPc = "loop"
    /\ wiIdx = Len(wiList)
    /\ wiPc' = "returned"
    /\ wiResult' = PyInt(Len(wiList))
    /\ UNCHANGED <<wiCdate, wiDeleteAll, wiList, wiIdx, wiSent, wiErr>>
    /\ UNCHANGED <<storeVars, pgVars, iaVars, scVars, ccVars>>

\* the caller goes on to its next delete_weigh_ins
WiReturn ==
    /\ wiPc \in {"returned", "raised"}
    /\ wiPc' = "idle"
    /\ UNCHANGED <<wiCdate, wiDeleteAll, wiList, wiIdx, wiSent, wiResult, wiErr>>
    /\ UNCHANGED <<storeVars, pgVars, iaVars, scVars, ccVars>>

WiIdle ==
    /\ wiPc = "idle"
    /\ wiCdate = "d1"
    /\ wiDeleteAll = FALSE
    /\ wiList = <<>>
    /\ wiIdx = 0
    /\ wiSent = <<>>
    /\ wiResult = None
    /\ wiErr = "none"

WiNext ==
    \/ \E cdate \in Dates, delete_all \in BOOLEAN : delete_weigh_ins(cdate, delete_all)
    \/ DeleteNext
    \/ DeleteDone
    \/ WiReturn

-----------------------------------------------------------------------------
(* init_api run by several callers at once over one token directory *)

Callers == {"t1", "t2"}

At(step) ==
    [step |-> step, file |-> "none"]

AtFile(step, name) ==
    [step |-> step, file |-> name]

NoTokens == [oauth1 |-> None, oauth2 |-> None]

\* the first try block: garmin.login() restores the tokens with garth.loads()
CcLoads(t) ==
    /\ ccPc[t] = At("start")
    /\ LET r == get_oauth(files)
       IN  IF r.status = "ok"
           THEN /\ ccTok' = [ccTok EXCEPT ![t] = [oauth1 |-> r.oauth1, oauth2 |-> r.oauth2]]
                /\ ccPc' = [ccPc EXCEPT ![t] = At("restoreProfile")]
           ELSE /\ ccPc' = [ccPc EXCEPT ![t] = At("login")]
                /\ UNCHANGED ccTok
    /\ UNCHANGED <<ccOpen, ccOut>>
    /\ UNCHANGED <<storeVars, pgVars, iaVars, scVars, wiVars>>

\* the second try block: garth.login(username, password) sends the credentials
CcLoginSend(t) ==
    /\ ccPc[t] = At("login")
    /\ ccPc' = [ccPc EXCEPT ![t] = At("exchange")]
    /\ UNCHANGED <<ccTok, ccOpen, ccOut>>
    /\ UNCHANGED <<storeVars, pgVars, iaVars, scVars, wiVars>>

\* the service answers the exchange: tokens, or an error init_api logs
CcLoginAnswer(t) ==
    /\ ccPc[t] = At("exchange")
    /\ \/ \E o1 \in OAuth1Tokens, o2 \in OAuth2Tokens :
            /\ ccTok' = [ccTok EXCEPT ![t] = [oauth1 |-> o1, oauth2 |-> o2]]
            /\ ccPc' = [ccPc EXCEPT ![t] = At("credsProfile")]
            /\ UNCHANGED ccOut
       \/ /\ ccPc' = [ccPc EXCEPT ![t] = At("returned")]
          /\ ccOut' = [ccOut EXCEPT ![t] = "None"]
          /\ UNCHANGED ccTok
    /\ UNCHANGED ccOpen
    /\ UNCHANGED <<storeVars, pgVars, iaVars, scVars, wiVars>>

\* the rest of Garmin.login: the profile and the user settings are fetched
CcProfile(t) ==
    /\ ccPc[t] \in {At("restoreProfile"), At("credsProfile")}
    /\ IF ccPc[t] = At("restoreProfile")
       THEN \/ /\ ccPc' = [ccPc EXCEPT ![t] = At("returned")]
               /\ ccOut' = [ccOut EXCEPT ![t] = "garmin"]
               /\ UNCHANGED ccTok
            \/ /\ ccPc' = [ccPc EXCEPT ![t] = At("login")]
               /\ ccTok' = [ccTok EXCEPT ![t] = NoTokens]
               /\ UNCHANGED ccOut
       ELSE \/ /\ ccPc' = [ccPc EXCEPT ![t] = AtFile("rm", OAUTH1_FILE)]
               /\ UNCHANGED <<ccTok, ccOut>>
            \/ /\ ccPc' = [ccPc EXCEPT ![t] = At("returned")]
               /\ ccOut' = [ccOut EXCEPT ![t] = "None"]
               /\ UNCHANGED ccTok
    /\ UNCHANGED ccOpen
    /\ UNCHANGED <<storeVars, pgVars, iaVars, scVars, wiVars>>

\* garth.dumps(), set_oauth: os.remove(path) of the file the caller has come to
CcRemove(t) ==
    /\ ccPc[t].step = "rm"
    /\ LET name == ccPc[t].file
       IN  IF RemoveRaises(files, name)
           THEN /\ ccPc' = [ccPc EXCEPT ![t] = At("returned")]
                /\ ccOut' = [ccOut EXCEPT ![t] = "None"]
                /\ UNCHANGED <<files, ccOpen>>
           ELSE /\ ccPc' = [ccPc EXCEPT ![t] = AtFile("open", name)]
                /\ files' = Remove(files, name)
                /\ ccOpen' = [ccOpen EXCEPT ![name] = "none"]
                /\ UNCHANGED ccOut
    /\ UNCHANGED ccTok
    /\ UNCHANGED <<stCallVars, pgVars, iaVars, scVars, wiVars>>

\* set_oauth: open(path, "w")
CcOpenW(t) ==
    /\ ccPc[t].step = "open"
    /\ LET name == ccPc[t].file
       IN  /\ ccPc' = [ccPc EXCEPT ![t] = AtFile("dump", name)]
           /\ files' = OpenW(files, name)
           /\ ccOpen' = [ccOpen EXCEPT ![name] = t]
    /\ UNCHANGED <<ccTok, ccOut>>
    /\ UNCHANGED <<stCallVars, pgVars, iaVars, scVars, wiVars>>

\* set_oauth: json.dump and the close; a caller whose file another caller has since
\* removed writes to a file no name leads to any more
CcDump(t) ==
    /\ ccPc[t].step = "dump"
    /\ LET name == ccPc[t].file
           tok == IF name = OAUTH1_FILE THEN ccTok[t].oauth1 ELSE ccTok[t].oauth2
       IN  /\ files' = IF ccOpen[name] = t THEN Dump(files, name, tok) ELSE files
           /\ IF name = OAUTH1_FILE
              THEN /\ ccPc' = [ccPc EXCEPT ![t] = AtFile("rm", OAUTH2_FILE)]
                   /\ UNCHANGED ccOut
              ELSE /\ ccPc' = [ccPc EXCEPT ![t] = At("returned")]
                   /\ ccOut' = [ccOut EXCEPT ![t] = "garmin"]
    /\ UNCHANGED <<ccTok, ccOpen>>
    /\ UNCHANGED <<stCallVars, pgVars, iaVars, scVars, wiVars>>

CcIdle ==
    /\ ccPc = [t \in Callers |-> At("start")]
    /\ ccTok = [t \in Callers |-> NoTokens]
    /\ ccOpen = [n \in FileNames |-> "none"]
    /\ ccOut = [t \in Callers |-> "none"]

CcNext ==
    \/ \E t \in Callers : CcLoads(t)
    \/ \E t \in Callers : CcLoginSend(t)
    \/ \E t \in Callers : CcLoginAnswer(t)
    \/ \E t \in Callers : CcProfile(t)
    \/ \E t \in Callers : CcRemove(t)
    \/ \E t \in Callers : CcOpenW(t)
    \/ \E t \in Callers : CcDump(t)

-----------------------------------------------------------------------------
(* Specifications *)

InitStore ==
    StoreInit /\ PgIdle /\ IaIdle /\ ScIdle /\ WiIdle /\ CcIdle

SpecStore ==
    InitStore /\ [][StoreNext]_vars

InitPaginate ==
    StoreIdle /\ PgIdle /\ IaIdle /\ ScIdle /\ WiIdle /\ CcIdle

SpecPaginate ==
    InitPaginate /\ [][PgNext]_vars

\* the loop runs in the calling thread, which keeps executing it
SpecPaginateLive ==
    SpecPaginate /\ WF_vars(PgNext)

InitInitApi ==
    StoreInit /\ PgIdle /\ IaIdle /\ ScIdle /\ WiIdle /\ CcIdle

SpecInitApi ==
    InitInitApi /\ [][IaNext]_vars

InitAccessors ==
    StoreIdle /\ PgIdle /\ IaIdle /\ ScIdle /\ WiIdle /\ CcIdle

SpecAccessors ==
    InitAccessors /\ [][ScNext]_vars

InitWeighIns ==
    StoreIdle /\ PgIdle /\ IaIdle /\ ScIdle /\ WiIdle /\ CcIdle

SpecWeighIns ==
    InitWeighIns /\ [][WiNext]_vars

InitConcurrent ==
    StoreInit /\ PgIdle /\ IaIdle /\ ScIdle /\ WiIdle /\ CcIdle

SpecConcurrent ==
    InitConcurrent /\ [][CcNext]_vars

-----------------------------------------------------------------------------
(* Claims about the repository, checked under SpecStore *)

ArgOf(name) ==
    IF name = OAUTH1_FILE THEN stArgs.oauth1 ELSE stArgs.oauth2

NotFoundErrors == {"FileNotFoundError"}

CorruptDataErrors == {"JSONDecodeError", "TypeError"}

\* the file exists but does not parse into the token class it is read as
Unparseable(fs, name, fields) ==
    \/ fs[name].kind = "truncated"
    \/ fs[name].kind = "json" /\ DOMAIN fs[name].obj # fields

AnyAbsent(fs) ==
    \E n \in FileNames : fs[n].kind = "absent"

AnyUnparseable(fs) ==
    \/ Unparseable(fs, OAUTH1_FILE, OAuth1Fields)
    \/ Unparseable(fs, OAUTH2_FILE, OAuth2Fields)

\* C3: set_oauth with both credentials, from any prior directory (an empty one
\* included), followed by get_oauth succeeds and returns the pair that was saved.
C3_RoundTrip ==
    (stPc = "loaded" /\ stErr # "Interrupted"
        /\ Truthy(stArgs.oauth1) /\ Truthy(stArgs.oauth2))
    => /\ stErr = "none"
       /\ ldResult = [status |-> "ok", oauth1 |-> stArgs.oauth1, oauth2 |-> stArgs.oauth2]

\* C4: when set_oauth, called over a directory that holds both tokens intact, is
\* interrupted between two of its steps, every token file holds either its
\* complete old content or its complete new content.
C4_InterruptLeavesOldOrNew ==
    (stPc = "interrupted" /\ ~AnyAbsent(stOld) /\ ~AnyUnparseable(stOld))
    => \A n \in FileNames :
           \/ files[n] = stOld[n]
           \/ Truthy(ArgOf(n)) /\ files[n] = JsonFile(asdict(ArgOf(n)))

C6_OmittedFileUnchanged ==
    \A n \in FileNames :
        LET other == CHOOSE m \in FileNames : m # n
        IN  (~Truthy(ArgOf(n)) /\ Truthy(ArgOf(other)))
            => /\ files[n] = stOld[n]
               /\ (stPc = "returned")
                  => files[other] = JsonFile(asdict(ArgOf(other)))

\* C6 witness: set_oauth(None, oauth2) returned, having replaced the oauth2 file
C6_Witness ==
    /\ stPc = "returned"
    /\ stArgs.oauth1 = None
    /\ Truthy(stArgs.oauth2)
    /\ files[OAUTH2_FILE] # stOld[OAUTH2_FILE]
    /\ files[OAUTH1_FILE].kind = "json"

-----------------------------------------------------------------------------
(* Claims about the pagination loops, checked under SpecPaginate(Live) *)

RECURSIVE Flatten(_)
Flatten(pages) ==
    IF pages = <<>> THEN <<>>
    ELSE Head(pages) \o Flatten(Tail(pages))

\* C1: the loop of get_activities_by_date / get_goals ends only on an empty page:
\* when the accessor has returned, the last page served is empty, and after every
\* page with an item (a page shorter than limit included) the loop is still
\* running with start advanced by limit, which is the offset of the next request.
C1_StopsOnlyOnEmptyPage ==
    /\ pgPc = "done" => (Len(pgPages) >= 1 /\ pgPages[Len(pgPages)] = <<>>)
    /\ \A k \in 1..Len(pgPages) :
           pgPages[k] # <<>>
           => IF k < Len(pgSent)
              THEN pgSent[k + 1] = pgSent[k] + pgLimit
              ELSE pgPc = "loop" /\ pgStart = pgSent[k] + pgLimit

\* C1 witness: a first page shorter than limit was followed by a second request
C1_Witness ==
    /\ Len(pgPages) >= 2
    /\ Len(pgPages[1]) > 0
    /\ Len(pgPages[1]) < pgLimit
    /\ pgSent[2] = pgSent[1] + pgLimit

\* C2: for every limit > 0 and every run of server pages closed by an empty page,
\* the accessor returns, its list is the non-empty pages joined in the order they
\* were served, and it has sent one request per non-empty page plus one.
C2_ReturnsConcatenation ==
    /\ []((pgPc = "done" /\ pgLimit > 0)
          => /\ pgResult = Flatten(SelectSeq(pgPages, LAMBDA pg : pg # <<>>))
             /\ Len(pgSent) = NonEmptyServed + 1)
    /\ (pgPc = "loop") ~> (pgPc \in {"done", "raised"})

\* C2 witness: two different non-empty pages and the closing empty one were served
C2_Witness ==
    /\ pgPc = "done"
    /\ NonEmptyServed = 2
    /\ pgPages[1] # pgPages[2]
    /\ pgResult = pgPages[1] \o pgPages[2]
    /\ Len(pgSent) = 3

-----------------------------------------------------------------------------
(* Claims about init_api, checked under SpecInitApi *)

\* C7: in init_api a failed restore login (token file missing or unparseable, or
\* an error from the profile or settings request) is followed at once by a
\* username/password login, and no such login is made when the restore succeeded.
C7_FallbackAfterFailedRestore ==
    /\ [](iaLog.restore = "ok" => iaLog.credLogins = 0)
    /\ [](iaLog.restore = "failed"
          => \/ iaLog.credLogins = 1
             \/ iaPc = "login" /\ iaTry = "creds" /\ iaLog.credLogins = 0)
    /\ [][(iaLog.restore = "failed" /\ iaLog.credLogins = 0 /\ iaLog'.run = iaLog.run)
          => iaLog'.credLogins = 1]_vars

\* C7 witness: an unparseable token file made the restore fail, and the
\* credential login was then called
C7_Witness ==
    /\ iaLog.restore = "failed"
    /\ iaLog.caught = "JSONDecodeError"
    /\ iaLog.credLogins = 1

C9_InjectedProviderCalledOnce ==
    (iaLog.challenged /\ iaPc # "mfa")
    => /\ iaLog.mfaInjected = 1
       /\ iaLog.mfaBy = garmin.prompt_mfa
       /\ iaLog.mfaSubmitted = iaLog.mfaCode

C11_NoSessionWhenBothFail ==
    /\ iaResult = "garmin"
       => /\ iaLog.restore = "ok" \/ iaLog.credLoginOk
          /\ Truthy(garmin.oauth1_token) /\ Truthy(garmin.oauth2_token)
          /\ garmin.display_name # NoneStr
          /\ garmin.full_name # NoneStr
          /\ garmin.unit_system # NoneStr
    /\ (iaPc \in {"returned", "raised"} /\ iaLog.restore = "failed" /\ ~iaLog.credLoginOk)
       => iaResult \in {"None", "raised"}

\* C11 witness: the restore failed, the exchange was accepted but a later request of
\* the credential login was refused, and init_api returned None
C11_Witness ==
    /\ iaPc = "returned"
    /\ iaLog.restore = "failed"
    /\ iaLog.exchange = "accepted"
    /\ ~iaLog.credLoginOk
    /\ Truthy(garmin.oauth1_token)
    /\ iaResult = "None"

\* C12: once login has returned True, by the restore path or by the credential
\* path, display_name, full_name and unit_system are all set.
C12_ProfileCachedWhenLoggedIn ==
    (iaLog.restore = "ok" \/ iaLog.credLoginOk)
    => /\ garmin.display_name # NoneStr
       /\ garmin.full_name # NoneStr
       /\ garmin.unit_system # NoneStr

\* C12 witness: a restored session with its three fields
C12_Witness ==
    /\ iaLog.restore = "ok"
    /\ iaResult = "garmin"
    /\ garmin.display_name = "dn"
    /\ garmin.full_name = "fn"
    /\ garmin.unit_system = "metric"

-----------------------------------------------------------------------------
(* Claims about the registry and the accessors, checked under SpecAccessors *)

\* the accessor has been through get_url
Resolved ==
    scPc \in {"resolved", "returned", "raised"}

\* the accessor is over
ScOver ==
    scPc \in {"returned", "raised"}

\* C13: an accessor whose name is no key of the registry fails inside get_url;
\* no path, and in particular not the empty path, comes back and no request is
\* made with it.
C13_UnknownKeyIsNeverSent ==
    (Resolved /\ scCaller \notin DOMAIN API_URLS)
    => /\ scPc = "raised"
       /\ scErr = "KeyError"
       /\ scCalls = <<>>

\* C14: for an accessor whose name is a key of the registry, the keyword arguments
\* it passes name every field of its template; get_url fails when a field has no
\* argument, and otherwise returns the template with every field replaced by the
\* argument of its name and every literal piece kept.
C14_PlaceholdersCovered ==
    (Resolved /\ scCaller \in DOMAIN API_URLS)
    => LET tpl == API_URLS[scCaller]
       IN  /\ Placeholders(tpl) \subseteq DOMAIN scKwargs
           /\ Len(scCalls) > 0
              => /\ Len(scUrl) = Len(tpl)
                 /\ \A i \in DOMAIN tpl :
                       scUrl[i] = IF tpl[i].t = "ph" THEN scKwargs[tpl[i].v] ELSE tpl[i].v

\* C15: a call that ended on a 401 answer made two requests with one token refresh
\* between them, the second request being the first again, and failed with the
\* authentication error.
C15_One401RefreshAndRetry ==
    (scPc = "raised" /\ scResp.status = 401)
    => /\ scErr = "GarminConnectAuthenticationError"
       /\ Len(scCalls) = 3
       /\ scCalls[2].op = "refresh_oauth2"
       /\ scCalls[3] = scCalls[1]

\* C16: a call answered with 429 fails with the rate-limit error after exactly one
\* request.
C16_RateLimitErrorNoRetry ==
    (scPc = "raised" /\ scResp.status = 429)
    => /\ scErr = "GarminConnectTooManyRequestsError"
       /\ Len(scCalls) = 1

\* C17: no accessor that decodes the answer returns a document whose
\* privacyProtected flag is true: it fails with the authentication error.
C17_PrivacyProtectedIsRefused ==
    (ScOver /\ scCaller \notin RawAccessors /\ scResp.status = 200
        /\ "privacyProtected" \in DOMAIN scResp.json
        /\ scResp.json.privacyProtected)
    => /\ scPc = "raised"
       /\ scErr = "GarminConnectAuthenticationError"

-----------------------------------------------------------------------------
(* Claims about delete_weigh_ins, checked under SpecWeighIns *)

\* the URLs of the DELETE requests sent, in order
DeletedUrls ==
    LET IsDelete(r) == r.method = "DELETE"
        deletes == SelectSeq(wiSent, IsDelete)
    IN  [i \in DOMAIN deletes |-> deletes[i].url]

\* what delete_weigh_ins returns for a date without weigh-ins: the bare return
NoWeighInsResult ==
    None

\* C18: with more than one weigh-in and delete_all false, delete_weigh_ins sends
\* no DELETE request and returns something other than what it returns for a
\* date without weigh-ins.
C18_MultipleIsDistinguishable ==
    (wiPc = "returned" /\ Len(wiList) > 1 /\ ~wiDeleteAll)
    => /\ DeletedUrls = <<>>
       /\ wiResult # NoWeighInsResult

\* C19: with N > 1 weigh-ins and delete_all true, delete_weigh_ins that returns
\* has sent exactly N DELETE requests, the i-th one for the date and the samplePk
\* of the i-th weigh-in (so each samplePk once), and returns N; while the loop
\* runs, the requests sent are those of the weigh-ins it has been through.
C19_DeleteAllDeletesEach ==
    LET UrlOf(w) == <<"/weight-service/user-weight/weight/", wiCdate,
                      "/byversion/", w.samplePk>>
    IN  (Len(wiList) > 1 /\ wiDeleteAll)
        => /\ wiPc = "returned"
              => /\ DeletedUrls = [i \in 1..Len(wiList) |-> UrlOf(wiList[i])]
                 /\ wiResult = PyInt(Len(wiList))
           /\ wiPc = "loop"
              => DeletedUrls = [i \in 1..wiIdx |-> UrlOf(wiList[i])]

\* C19 witness: three weigh-ins, all deleted
C19_Witness ==
    /\ wiPc = "returned"
    /\ wiDeleteAll
    /\ Len(wiList) = 3
    /\ Len(DeletedUrls) = 3
    /\ wiResult = PyInt(3)

-----------------------------------------------------------------------------
(* Claims about concurrent callers, checked under SpecConcurrent *)

\* the caller has sent its credentials and waits for the tokens
InLogin(t) ==
    ccPc[t].step = "exchange"

\* the caller holds the token file open for writing
Writing(t, name) ==
    ccPc[t] = AtFile("dump", name)

\* C20: no two callers are in a login at once, and no two callers hold the same
\* token file open for writing at once.
C20_OneLoginOneWriter ==
    \A t, u \in Callers :
        t # u => /\ ~(InLogin(t) /\ InLogin(u))
                 /\ \A name \in FileNames : ~(Writing(t, name) /\ Writing(u, name))

-----------------------------------------------------------------------------
(* Claims about the cursor of the pagination loops, checked under SpecPaginate *)

C22_PageErrorPropagates ==
    /\ [](/\ pgPc = "done" => Len(pgSent) = Len(pgPages)
          /\ pgPc = "raised" => /\ Len(pgSent) = Len(pgPages) + 1
                                /\ pgResult = <<>>)
    /\ [][pgPc = "raised" => (pgSent' = pgSent /\ pgResult' = pgResult)]_vars

\* C22 witness: the second request raised after a first page had been accumulated
C22_Witness ==
    /\ pgPc = "raised"
    /\ Len(pgSent) = 2
    /\ Len(pgAcc) > 0
    /\ pgResult = <<>>

-----------------------------------------------------------------------------
(* Claims about error propagation in init_api, checked under SpecInitApi *)

\* how a refused token shows in the restore login: the HTTP error of the profile or
\* settings request, or the library's own authentication error
AuthenticationErrors == {"GarthHTTPError", "GarminConnectAuthenticationError"}

\* C23: the first except clause recovers only from a storage-layer error or an
\* authentication error of the restore login, and an error of the credential
\* login (the exchange, its profile and settings requests, or dumps) leaves
\* init_api as that exception instead of being logged and answered with None.
C23_OnlyRestoreErrorsRecovered ==
    /\ iaLog.caught # "none"
       => iaLog.caught \in NotFoundErrors \cup CorruptDataErrors \cup AuthenticationErrors
    /\ (iaPc \in {"returned", "raised"} /\ iaTry = "creds" /\ iaErr # "none")
       => iaResult = "raised"

-----------------------------------------------------------------------------
(* Claims about what decides the path, checked under SpecAccessors *)

\* C24: the path get_url returns depends on the arguments it is given and not on
\* the name of the function that calls it: called with the same keyword arguments
\* by any other accessor that passes arguments of these names, it returns the same
\* path.
C24_PathIndependentOfCaller ==
    (Resolved /\ scErr # "KeyError")
    => \A other \in Accessors :
          AccessorKwargs[other] = DOMAIN scKwargs
          => get_url(StackOf(other), scKwargs) = [err |-> "none", url |-> scUrl]

-----------------------------------------------------------------------------
(* Claims about logout and about a login that raises, checked under SpecInitApi *)

\* C25: the call of logout leaves the Garmin instance without its tokens and its
\* profile fields (the instance as it was constructed), makes no call on the garth
\* client and leaves the token files as they are.
C25_LogoutIsLocalOnly ==
    [][(~iaLog.loggedOut /\ iaLog'.loggedOut)
       => /\ garmin' = NewGarmin(garmin.prompt_mfa)
          /\ [iaLog' EXCEPT !.loggedOut = FALSE] = iaLog
          /\ files' = files]_vars

\* the credential login of this run raised (the Garmin instance of a restore login
\* that raised is replaced by a new one in the except clause)
CredLoginRaised ==
    /\ iaPc \in {"returned", "raised"}
    /\ iaTry = "creds"
    /\ ~iaLog.credLoginOk

\* C26 as stated: whatever the step at which login raised, display_name, full_name
\* and unit_system are as they were before the call, that is None.
C26_LoginAllOrNothing ==
    CredLoginRaised
    => /\ garmin.display_name = NoneStr
       /\ garmin.full_name = NoneStr
       /\ garmin.unit_system = NoneStr

\* C26 amended: a login that raised has not set unit_system; if it raised in the
\* exchange or in the profile request, display_name and full_name are as they were
\* too; if it raised in the user-settings request, display_name and full_name have
\* already been set from the profile.
C26_LoginPartialAfterProfile ==
    CredLoginRaised
    => /\ garmin.unit_system = NoneStr
       /\ iaLog.failedAt \in {"exchange", "profile", "settings"}
       /\ iaLog.failedAt \in {"exchange", "profile"}
          => (garmin.display_name = NoneStr /\ garmin.full_name = NoneStr)
       /\ iaLog.failedAt = "settings"
          => (garmin.display_name # NoneStr /\ garmin.full_name # NoneStr)

\* C26 witness: the user-settings request of the credential login raised
C26_Witness ==
    /\ CredLoginRaised
    /\ iaLog.failedAt = "settings"
    /\ garmin.display_name = "dn"
    /\ garmin.full_name = "fn"
    /\ garmin.unit_system = NoneStr
    /\ iaResult = "None"

-----------------------------------------------------------------------------
(* Claims about delete_weigh_ins with few weigh-ins, checked under SpecWeighIns *)

\* delete_weigh_ins is over
WiOver ==
    wiPc \in {"returned", "raised"}

\* C27 as stated: no DELETE for a date without weigh-ins; one DELETE and the result
\* 1 for a date with one weigh-in, whatever delete_all; and in every case the
\* DELETE requests sent number 0 or as many as the weigh-ins listed.
C27_NoneOneOrAll ==
    /\ (wiPc = "returned" /\ Len(wiList) = 0) => Len(DeletedUrls) = 0
    /\ (wiPc = "returned" /\ Len(wiList) = 1)
       => (Len(DeletedUrls) = 1 /\ wiResult = PyInt(1))
    /\ WiOver => Len(DeletedUrls) \in {0, Len(wiList)}

\* C27 amended: the same for every call that returns; a call that the exception of
\* a request ended has sent no DELETE when it was the listing that raised, and
\* otherwise the DELETE requests of the weigh-ins up to the one that raised.
C27_NoneOneOrAllOnReturn ==
    /\ wiPc = "returned"
       => /\ Len(wiList) = 0 => (DeletedUrls = <<>> /\ wiResult = None)
          /\ Len(wiList) = 1
             => /\ DeletedUrls = << <<"/weight-service/user-weight/weight/", wiCdate,
                                      "/byversion/", wiList[1].samplePk>> >>
                /\ wiResult = PyInt(1)
          /\ Len(DeletedUrls) \in {0, Len(wiList)}
    /\ wiPc = "raised"
       => Len(DeletedUrls) = (IF wiList = <<>> THEN 0 ELSE wiIdx + 1)

\* C27 witness: the only weigh-in of the date was deleted without delete_all
C27_Witness ==
    /\ wiPc = "returned"
    /\ Len(wiList) = 1
    /\ ~wiDeleteAll
    /\ Len(DeletedUrls) = 1
    /\ wiResult = PyInt(1)

====
